---- MODULE Spec2Model ----
(***************************************************************************)
(* State-machine model of macd_dashboard.py: the Streamlit script that     *)
(* loads a price series, derives MACD / signal / VWAP, classifies the last *)
(* two points (check_cross), shows the option chain and sends an e-mail    *)
(* alert, once per script run, re-run by the auto-refresh loop.            *)
(*                                                                         *)
(* Numbers.  The script computes in IEEE doubles.  The model computes the  *)
(* same formulas exactly: a defined number is an integer multiple of       *)
(* 1/Unit, where Unit = (13*27*5)^(MaxBars-1) clears every denominator the *)
(* three exponential averages of a series of at most MaxBars bars can      *)
(* produce.  Such integers exceed 32 bits, so a number is kept as two      *)
(* limbs, hi*Base + lo with 0 <= lo < Base.  NaN is a separate value.      *)
(***************************************************************************)
EXTENDS Integers, Sequences, FiniteSets, TLC

\* ------------------------------------------------------------------ bounds
\* longest series the market-data provider returns in the model
MaxBars == 3
\* longest MACD / signal sequence handed to check_cross on its own
MaxLen == 3
\* longest bar series handed to get_vwap on its own
MaxVwapBars == 3

\* close prices of the modelled feed
Prices == {1, 2, 3}

\* --------------------------------------------------------- program constants
\* st.sidebar.slider("Refresh every (seconds)", min_value=30, max_value=300, step=30)
MinRefresh == 30
MaxRefresh == 300
RefreshStep == 30
\* @st.cache_data(ttl=60) on load_data
DataTTL == 60

RefreshRates == {r \in MinRefresh..MaxRefresh : (r - MinRefresh) % RefreshStep = 0}

\* ------------------------------------------------------------------ numbers
Base == 10^6

NaN == [nan |-> TRUE, hi |-> 0, lo |-> 0]
Norm(h, l) == [nan |-> FALSE, hi |-> h + (l \div Base), lo |-> l % Base]
Add(a, b) == Norm(a.hi + b.hi, a.lo + b.lo)
Sub(a, b) == Norm(a.hi - b.hi, a.lo - b.lo)
\* a * k for a small natural k
Scale(a, k) == Norm(a.hi * k, a.lo * k)
\* a / d for a small d dividing a
DivExact(a, d) == Norm(a.hi \div d, ((a.hi % d) * Base + a.lo) \div d)
\* a < b on doubles: false when either side is NaN
Lt(a, b) == /\ ~a.nan /\ ~b.nan
            /\ (a.hi < b.hi \/ (a.hi = b.hi /\ a.lo < b.lo))
Gt(a, b) == Lt(b, a)

RECURSIVE Times1755(_, _)
Times1755(a, n) == IF n = 0 THEN a
                   ELSE Times1755(Scale(Scale(Scale(a, 13), 27), 5), n - 1)
\* the number p (an integer price) in units of 1/Unit
Float(p) == Times1755(Norm(0, p), MaxBars - 1)
\* a small integer as a number for check_cross on its own (any unit does:
\* check_cross only compares)
Val(k) == Norm(0, k)

\* ----------------------------------------------------------------- series
\* Series.ewm(span=span, adjust=False).mean() of a series without NaN:
\* y[0] = x[0], y[t] = a*x[t] + (1-a)*y[t-1] with a = 2/(span+1)
RECURSIVE ewm_mean(_, _)
ewm_mean(xs, span) ==
    IF Len(xs) = 0 THEN <<>>
    ELSE IF Len(xs) = 1 THEN <<xs[1]>>
    ELSE LET prev == ewm_mean(SubSeq(xs, 1, Len(xs) - 1), span)
             x    == xs[Len(xs)]
             y    == DivExact(Add(Scale(x, 2), Scale(prev[Len(prev)], span - 1)),
                              span + 1)
         IN  Append(prev, y)

\* get_macd(data): (macd, signal)
get_macd(data) ==
    LET close  == [i \in 1..Len(data) |-> Float(data[i].Close)]
        exp1   == ewm_mean(close, 12)
        exp2   == ewm_mean(close, 26)
        macd   == [i \in 1..Len(data) |-> Sub(exp1[i], exp2[i])]
        signal == ewm_mean(macd, 9)
    IN  [macd |-> macd, signal |-> signal]

\* running totals of a sequence of integers (Series.cumsum)
RECURSIVE cumsum(_)
cumsum(xs) ==
    IF Len(xs) = 0 THEN <<>>
    ELSE LET prev == cumsum(SubSeq(xs, 1, Len(xs) - 1))
         IN  Append(prev, (IF Len(prev) = 0 THEN 0 ELSE prev[Len(prev)]) + xs[Len(xs)])

\* IEEE division of the double thirds/3 by the integer d.  A finite quotient
\* is kept as the fraction num/den; 0/0 is NaN and x/0 is an infinity.
FloatDiv(thirds, d) ==
    IF d # 0 THEN [kind |-> "num", num |-> thirds, den |-> 3 * d]
    ELSE IF thirds = 0 THEN [kind |-> "nan", num |-> 0, den |-> 0]
    ELSE [kind |-> "inf", num |-> thirds, den |-> 0]

\* get_vwap with its undefined values filled: (...).fillna(0)
get_vwap_fillna(data) ==
    LET vol_price     == [i \in 1..Len(data) |->
                            data[i].Volume * (data[i].High + data[i].Low + data[i].Close)]
        cum_vol_price == cumsum(vol_price)
        cum_vol       == cumsum([i \in 1..Len(data) |-> data[i].Volume])
    IN  [i \in 1..Len(data) |->
            IF FloatDiv(cum_vol_price[i], cum_vol[i]).kind = "nan"
            THEN [kind |-> "num", num |-> 0, den |-> 1]
            ELSE FloatDiv(cum_vol_price[i], cum_vol[i])]

\* get_vwap(data): (Volume * (High + Low + Close) / 3).cumsum() / Volume.cumsum()
\* The running numerator is kept in thirds, so that /3 stays exact.
get_vwap(data) ==
    LET vol_price     == [i \in 1..Len(data) |->
                            data[i].Volume * (data[i].High + data[i].Low + data[i].Close)]
        cum_vol_price == cumsum(vol_price)
        cum_vol       == cumsum([i \in 1..Len(data) |-> data[i].Volume])
    IN  [i \in 1..Len(data) |-> FloatDiv(cum_vol_price[i], cum_vol[i])]

\* ------------------------------------------------------------- check_cross
\* the four results, as words ("BUY" in alert is a word test below)
BUY == <<"BUY", "SIGNAL">>
SELL == <<"SELL", "SIGNAL">>
NoCrossover == <<"No", "crossover">>
NoSignal == <<"No", "signal">>

\* Series.dropna(): the defined points, each with the index label it keeps
RECURSIVE dropna_from(_, _)
dropna_from(s, i) ==
    IF i > Len(s) THEN <<>>
    ELSE IF s[i].nan THEN dropna_from(s, i + 1)
    ELSE <<[idx |-> i, val |-> s[i]]>> \o dropna_from(s, i + 1)
\* dropna left out: every point is kept
dropna_omitted(s) == [i \in 1..Len(s) |-> [idx |-> i, val |-> s[i]]]
dropna(s) == dropna_from(s, 1)

\* iloc[-2] and iloc[-1] of each cleaned series (lines 52-60); taken only
\* when both have two points
cross_points(macd, signal) ==
    LET m == dropna(macd)
        s == dropna(signal)
    IN  [macd_prev |-> m[Len(m) - 1], macd_now |-> m[Len(m)],
         sig_prev  |-> s[Len(s) - 1], sig_now  |-> s[Len(s)]]

\* check_cross with <= and >= for < and >
check_cross_nonstrict(macd, signal) ==
    IF Len(dropna(macd)) < 2 \/ Len(dropna(signal)) < 2 THEN NoSignal
    ELSE LET p         == cross_points(macd, signal)
             macd_prev == p.macd_prev.val
             macd_now  == p.macd_now.val
             sig_prev  == p.sig_prev.val
             sig_now   == p.sig_now.val
         IN  IF ~Gt(macd_prev, sig_prev) /\ ~Lt(macd_now, sig_now) THEN BUY
             ELSE IF ~Lt(macd_prev, sig_prev) /\ ~Gt(macd_now, sig_now) THEN SELL
             ELSE NoCrossover

check_cross(macd, signal) ==
    IF Len(dropna(macd)) < 2 \/ Len(dropna(signal)) < 2 THEN NoSignal
    ELSE LET p         == cross_points(macd, signal)
             macd_prev == p.macd_prev.val
             macd_now  == p.macd_now.val
             sig_prev  == p.sig_prev.val
             sig_now   == p.sig_now.val
         IN  IF Lt(macd_prev, sig_prev) /\ Gt(macd_now, sig_now) THEN BUY
             ELSE IF Gt(macd_prev, sig_prev) /\ Lt(macd_now, sig_now) THEN SELL
             ELSE NoCrossover

\* "BUY" in alert
HasWord(alert_text, w) == \E i \in 1..Len(alert_text) : alert_text[i] = w

\* ------------------------------------------------------------------ inputs
Bar(h, l, c, v) == [High |-> h, Low |-> l, Close |-> c, Volume |-> v]

RECURSIVE SeqsUpTo(_, _)
\* every sequence over S of length 0..n
SeqsUpTo(S, n) ==
    IF n = 0 THEN {<<>>}
    ELSE LET shorter == SeqsUpTo(S, n - 1)
         IN  shorter \cup {Append(q, x) : q \in {r \in shorter : Len(r) = n - 1}, x \in S}

\* what yf.download can return for the ticker: a series of traded bars,
\* possibly empty.  Every close is a defined number (a feed with NaN closes
\* is not modelled), so the "N/A" branch of line 93 is not taken; high, low
\* and volume only feed the chart of the cycle and are fixed here, get_vwap
\* is exercised on varied bars under SpecVwap.
FeedBars == {Bar(p, p, p, 1) : p \in Prices}
Feed == SeqsUpTo(FeedBars, MaxBars)
\* a call of yf.download: it raises, or it returns a series
Replies == {[error |-> TRUE, bars |-> <<>>]} \cup {[error |-> FALSE, bars |-> b] : b \in Feed}

\* a call of yf.Ticker(...).options and of stock.option_chain(expiry).
\* load_option_data is cached for 600 s (line 31): a cached call repeats an
\* earlier reply, which is one of the replies a cycle may draw here, so every
\* run of the script is a run of the model.
OptionReplies == [raises : BOOLEAN, expirations : {<<>>, <<"expiry">>}, chain_raises : BOOLEAN]

\* inputs of check_cross on its own
CrossValues == {NaN, Val(-1), Val(0), Val(1)}
CrossSeries == SeqsUpTo(CrossValues, MaxLen)

\* inputs of get_vwap on its own: low <= close <= high, volume >= 0
VwapBarSet == {Bar(h, l, c, v) : h \in {1, 2}, l \in {1, 2}, c \in {1, 2}, v \in {0, 1, 2}}
VwapBars == {b \in VwapBarSet : b.Low <= b.Close /\ b.Close <= b.High}
VwapSeries == SeqsUpTo(VwapBars, MaxVwapBars)

\* ------------------------------------------------------------------- state
VARIABLES
    ticker_input,   \* line 13
    email_alert,    \* line 18: the "Enable Email Alerts" checkbox
    auto_refresh,   \* line 24
    refresh_rate,   \* line 25
    cache,          \* st.cache_data entry of load_data(ticker_input)
    cache_age,      \* seconds since that entry was stored
    pc,             \* position of the script run
    provider,       \* how this run's load_data got its value
    data, macd, signal, vwap, alert, price_display,   \* locals of render_dashboard
    messages,       \* st.error / st.warning / st.sidebar.error shown in this run
    outbox,         \* the calls of send_email_alert in this run
    transport,      \* outcome of the SMTP session of this run
    prev_alert,     \* alert of the previous run (history)
    prev_calls      \* Len(outbox) of the previous run (history)

config == <<ticker_input, email_alert, auto_refresh, refresh_rate>>
store == <<cache, cache_age>>
locals == <<data, macd, signal, vwap, alert, price_display>>
history == <<prev_alert, prev_calls>>
vars == <<config, store, pc, provider, locals, messages, outbox, transport, history>>

NoEntry == [valid |-> FALSE, value |-> <<>>]
NoPrice == [shown |-> FALSE, value |-> 0]

\* the locals and outputs of a script run before render_dashboard is called
FreshRun ==
    /\ provider = "idle"
    /\ data = <<>> /\ macd = <<>> /\ signal = <<>> /\ vwap = <<>>
    /\ alert = <<>> /\ price_display = NoPrice
    /\ messages = {} /\ outbox = <<>> /\ transport = "idle"

Init ==
    /\ ticker_input = "NVDA"
    /\ email_alert \in BOOLEAN
    /\ auto_refresh \in BOOLEAN
    /\ refresh_rate \in RefreshRates
    /\ cache = NoEntry /\ cache_age = 0
    /\ pc = "render"
    /\ FreshRun
    /\ prev_alert = <<>> /\ prev_calls = 0

\* --------------------------------------------------------------- operations
\* @st.cache_data(ttl=60): an entry younger than the ttl is served
CacheFresh(c, age) == c.valid /\ age < DataTTL

\* load_data(ticker) behind its cache (lines 27-29): a fresh entry is
\* returned without calling the provider; otherwise yf.download is called,
\* its exception propagates, its result is stored and returned
load_data(c, age, reply) ==
    IF CacheFresh(c, age)
    THEN [raised |-> FALSE, value |-> c.value, cache |-> c, age |-> age,
          source |-> "cached"]
    ELSE IF reply.error
    THEN [raised |-> TRUE, value |-> <<>>, cache |-> NoEntry, age |-> 0,
          source |-> "error"]
    ELSE [raised |-> FALSE, value |-> reply.bars,
          cache |-> [valid |-> TRUE, value |-> reply.bars], age |-> 0,
          source |-> IF reply.bars = <<>> THEN "empty" ELSE "ok"]

\* load_option_data(ticker) (lines 31-37): (stock.options, stock), or
\* ([], None) when the provider raises
load_option_data(reply) ==
    IF reply.raises THEN [expirations |-> <<>>, stock |-> "None"]
    ELSE [expirations |-> reply.expirations, stock |-> "Ticker"]

\* send_email_alert without its try/except: the SMTP exception propagates
send_email_alert_uncaught(subject, body, smtp) ==
    [raised    |-> smtp # "ok",
     call      |-> [subject |-> subject, body |-> body],
     transport |-> IF smtp = "ok" THEN "sent" ELSE "failed",
     messages  |-> {}]

\* send_email_alert (lines 71-81): any exception of the SMTP session is
\* caught and shown in the sidebar; the function returns normally
send_email_alert(subject, body, smtp) ==
    [raised    |-> FALSE,
     call      |-> [subject |-> subject, body |-> body],
     transport |-> IF smtp = "ok" THEN "sent" ELSE "failed",
     messages  |-> IF smtp = "ok" THEN {} ELSE {"Email failed"}]

\* f"${last_price:.2f}" of a defined price (line 93)
PriceDisplay(last_price) == [shown |-> TRUE, value |-> last_price]

\* lines 84-87: data = load_data(ticker_input); if data.empty: st.error; return
LoadData ==
    /\ pc = "render"
    /\ \E reply \in Replies :
         LET r == load_data(cache, cache_age, reply)
         IN  /\ cache' = r.cache
             /\ cache_age' = r.age
             /\ provider' = r.source
             /\ data' = r.value
             /\ IF r.raised
                THEN pc' = "crashed" /\ UNCHANGED messages
                ELSE IF Len(r.value) = 0
                THEN /\ pc' = "returned"
                     /\ messages' = messages \cup {"No data loaded for this ticker."}
                ELSE pc' = "indicators" /\ UNCHANGED messages
    /\ UNCHANGED <<config, macd, signal, vwap, alert, price_display, outbox,
                   transport, history>>

\* lines 89-103: the indicators, the classification, the price and the chart
ComputeIndicators ==
    /\ pc = "indicators"
    /\ LET ms == get_macd(data)
       IN  /\ macd' = ms.macd
           /\ signal' = ms.signal
           /\ alert' = check_cross(ms.macd, ms.signal)
    /\ vwap' = get_vwap(data)
    /\ price_display' = PriceDisplay(data[Len(data)].Close)
    /\ pc' = "options"
    /\ UNCHANGED <<config, store, provider, data, messages, outbox, transport, history>>

\* lines 105-133: the option chain; each failure warns and returns
ShowOptions ==
    /\ pc = "options"
    /\ \E reply \in OptionReplies :
         LET o == load_option_data(reply)
         IN  IF Len(o.expirations) = 0 \/ o.stock = "None"
             THEN /\ messages' = messages \cup {"Option data unavailable."}
                  /\ pc' = "returned"
             ELSE IF reply.chain_raises
             THEN /\ messages' = messages \cup {"Could not load option chain."}
                  /\ pc' = "returned"
             ELSE /\ UNCHANGED messages
                  /\ pc' = "alert"
    /\ UNCHANGED <<config, store, provider, locals, outbox, transport, history>>

\* the test of line 135 without the checkbox
AlertDue_unchecked(enabled, alert_text) ==
    HasWord(alert_text, "BUY") \/ HasWord(alert_text, "SELL")

\* line 135: email_alert and ("BUY" in alert or "SELL" in alert)
AlertDue(enabled, alert_text) ==
    enabled /\ (HasWord(alert_text, "BUY") \/ HasWord(alert_text, "SELL"))

\* lines 135-138: the alert
SendAlert ==
    /\ pc = "alert"
    /\ IF AlertDue(email_alert, alert)
       THEN \E smtp \in {"ok", "fail"} :
              LET subject == <<ticker_input, alert>>
                  body    == <<ticker_input, alert, price_display>>
                  r       == send_email_alert(subject, body, smtp)
              IN  /\ outbox' = Append(outbox, r.call)
                  /\ transport' = r.transport
                  /\ messages' = messages \cup r.messages
                  /\ pc' = IF r.raised THEN "crashed" ELSE "returned"
       ELSE /\ pc' = "returned"
            /\ UNCHANGED <<outbox, transport, messages>>
    /\ UNCHANGED <<config, store, provider, locals, history>>

\* line 143: time.sleep(refresh_rate) in the auto-refresh loop; the cache
\* entry ages and is dropped once it reaches its ttl
Sleep ==
    /\ pc = "returned"
    /\ auto_refresh
    /\ LET age == cache_age + refresh_rate
       IN  IF cache.valid /\ age < DataTTL
           THEN cache_age' = age /\ UNCHANGED cache
           ELSE cache_age' = 0 /\ cache' = NoEntry
    /\ pc' = "slept"
    /\ UNCHANGED <<config, provider, locals, messages, outbox, transport, history>>

\* line 144: st.rerun() ends this run and starts the script again; the
\* widgets keep their values, the cache outlives the run
Rerun ==
    /\ pc = "slept"
    /\ prev_alert' = alert
    /\ prev_calls' = Len(outbox)
    /\ pc' = "render"
    /\ provider' = "idle"
    /\ data' = <<>> /\ macd' = <<>> /\ signal' = <<>> /\ vwap' = <<>>
    /\ alert' = <<>> /\ price_display' = NoPrice
    /\ messages' = {} /\ outbox' = <<>> /\ transport' = "idle"
    /\ UNCHANGED <<config, store>>

\* lines 145-146: without auto-refresh the script ends after one cycle
Finish ==
    /\ pc = "returned"
    /\ ~auto_refresh
    /\ pc' = "done"
    /\ UNCHANGED <<config, store, provider, locals, messages, outbox, transport, history>>

Next ==
    \/ LoadData
    \/ ComputeIndicators
    \/ ShowOptions
    \/ SendAlert
    \/ Sleep
    \/ Rerun
    \/ Finish

Spec == Init /\ [][Next]_vars

\* ------------------------------------------- check_cross and get_vwap alone
\* the configuration and the outputs that a run of one function leaves alone
Idle ==
    /\ ticker_input = "NVDA" /\ email_alert = FALSE /\ auto_refresh = FALSE
    /\ refresh_rate = MinRefresh
    /\ cache = NoEntry /\ cache_age = 0
    /\ provider = "idle" /\ price_display = NoPrice
    /\ messages = {} /\ outbox = <<>> /\ transport = "idle"
    /\ prev_alert = <<>> /\ prev_calls = 0

\* check_cross(macd, signal) for every pair of bounded sequences
InitCross ==
    /\ Idle
    /\ pc = "cross"
    /\ macd \in CrossSeries
    /\ signal \in CrossSeries
    /\ data = <<>> /\ vwap = <<>> /\ alert = <<>>

CheckCross ==
    /\ pc = "cross"
    /\ alert' = check_cross(macd, signal)
    /\ pc' = "cross_done"
    /\ UNCHANGED <<config, store, provider, data, macd, signal, vwap, price_display,
                   messages, outbox, transport, history>>

SpecCross == InitCross /\ [][CheckCross]_vars

\* get_vwap(data) for every bounded bar series
InitVwap ==
    /\ Idle
    /\ pc = "vwap"
    /\ data \in VwapSeries
    /\ macd = <<>> /\ signal = <<>> /\ vwap = <<>> /\ alert = <<>>

ComputeVwap ==
    /\ pc = "vwap"
    /\ vwap' = get_vwap(data)
    /\ pc' = "vwap_done"
    /\ UNCHANGED <<config, store, provider, data, macd, signal, alert, price_display,
                   messages, outbox, transport, history>>

SpecVwap == InitVwap /\ [][ComputeVwap]_vars

\* ------------------------------------------------------------------ claims
\* render_dashboard has returned (by any of its return statements)
CycleOver == pc \in {"returned", "slept", "done"}
\* the one alert a cycle owes: ticker, signal and last price
DueCall == [subject |-> <<ticker_input, alert>>,
            body    |-> <<ticker_input, alert, price_display>>]
\* the defined points of a sequence, in order
Defined(s) == SelectSeq(s, LAMBDA x : ~x.nan)

\* C1: a cycle with a non-empty series, alerts enabled and a BUY or SELL
\* classification ends with exactly one call of send_email_alert carrying
\* the ticker, the signal and the last price, whatever the option-chain
\* steps did.
AlertCompleteness ==
    (CycleOver /\ Len(data) > 0 /\ email_alert /\ alert \in {BUY, SELL})
        => outbox = <<DueCall>>

\* C2: in every cycle send_email_alert is called at most once, and only
\* with alerts enabled, a non-empty series and a BUY or SELL result.
AlertSoundness ==
    /\ Len(outbox) <= 1
    /\ Len(outbox) = 1 => (email_alert /\ Len(data) > 0 /\ alert \in {BUY, SELL})
    /\ prev_calls <= 1
    /\ prev_calls = 1 => (email_alert /\ prev_alert \in {BUY, SELL})
\* an alert sent in a second cycle, after a first one that sent one too
AlertSoundnessWitness ==
    /\ Len(outbox) = 1 /\ prev_calls = 1 /\ alert = SELL /\ transport = "sent"

\* C3: on the last two defined points of each sequence, check_cross gives
\* BUY exactly for m_prev < s_prev and m_now > s_now, SELL exactly for
\* m_prev > s_prev and m_now < s_now, "No crossover" otherwise; any equality
\* gives "No crossover"; the two conditions exclude each other.
CrossoverStrict ==
    (pc = "cross_done" /\ Len(Defined(macd)) >= 2 /\ Len(Defined(signal)) >= 2) =>
        LET m      == Defined(macd)
            s      == Defined(signal)
            m_prev == m[Len(m) - 1]
            m_now  == m[Len(m)]
            s_prev == s[Len(s) - 1]
            s_now  == s[Len(s)]
            up     == Lt(m_prev, s_prev) /\ Lt(s_now, m_now)
            down   == Lt(s_prev, m_prev) /\ Lt(m_now, s_now)
        IN  /\ alert = BUY <=> up
            /\ alert = SELL <=> down
            /\ (~up /\ ~down) <=> alert = NoCrossover
            /\ (m_prev = s_prev \/ m_now = s_now) => alert = NoCrossover
            /\ ~(up /\ down)
\* a tie at the earlier point followed by MACD above the signal
CrossoverStrictWitness ==
    /\ pc = "cross_done"
    /\ macd = <<Val(0), Val(1)>>
    /\ signal = <<Val(0), Val(0)>>
    /\ alert = NoCrossover

\* C4: with fewer than 2 defined points in either sequence check_cross
\* returns "No signal".
InsufficientHistory ==
    (pc = "cross_done" /\ (Len(Defined(macd)) < 2 \/ Len(Defined(signal)) < 2))
        => alert = NoSignal
\* two points of which one is undefined, against a fully defined signal
InsufficientHistoryWitness ==
    /\ pc = "cross_done"
    /\ Len(macd) >= 2 /\ Len(Defined(macd)) = 1
    /\ Len(Defined(signal)) >= 2
    /\ alert = NoSignal

\* C5: a cycle whose market-data call returns nothing or raises shows the
\* unavailable state, sends no alert and does not crash.
DataFailureIsolation ==
    provider \in {"empty", "error"} =>
        /\ pc # "crashed"
        /\ "No data loaded for this ticker." \in messages
        /\ outbox = <<>>

\* C6: a failed SMTP session is reported in the sidebar, the cycle returns
\* normally, and in auto-refresh mode the loop goes on to the next cycle.
NotificationFailureIsolation ==
    transport = "failed" =>
        /\ "Email failed" \in messages
        /\ CycleOver
        /\ (auto_refresh /\ pc = "returned") => ENABLED Sleep
        /\ (auto_refresh /\ pc = "slept") => ENABLED Rerun
        /\ ~auto_refresh => (pc = "done" \/ ENABLED Finish)
\* the loop has slept after a cycle whose e-mail failed
NotificationFailureWitness ==
    /\ transport = "failed" /\ auto_refresh /\ pc = "slept"
    /\ "Email failed" \in messages

\* C7: with alerts enabled, a cycle that classifies as the same BUY or SELL
\* as the cycle before it sends an alert again.
NoDeduplication ==
    (CycleOver /\ email_alert /\ alert \in {BUY, SELL} /\ prev_alert = alert)
        => outbox = <<DueCall>>

\* C8: the series a cycle works on was returned by the provider in that
\* cycle, for every refresh interval.
CycleFreshness ==
    pc \in {"indicators", "options", "alert", "returned", "slept", "done"}
        => provider # "cached"

\* sum over j <= i of volume_j
RECURSIVE SumVolume(_, _)
SumVolume(bars, i) == IF i = 0 THEN 0 ELSE SumVolume(bars, i - 1) + bars[i].Volume
\* three times the sum over j <= i of (high_j + low_j + close_j)/3 * volume_j
RECURSIVE SumTypicalVolume3(_, _)
SumTypicalVolume3(bars, i) ==
    IF i = 0 THEN 0
    ELSE SumTypicalVolume3(bars, i - 1)
         + (bars[i].High + bars[i].Low + bars[i].Close) * bars[i].Volume

\* C9: at every index get_vwap is the cumulative typical-price volume over
\* the cumulative volume where that volume is not zero, and NaN where it is.
VwapDefinition ==
    pc = "vwap_done" =>
        /\ Len(vwap) = Len(data)
        /\ \A i \in 1..Len(data) :
             IF SumVolume(data, i) # 0
             THEN /\ vwap[i].kind = "num"
                  /\ vwap[i].num * (3 * SumVolume(data, i))
                       = SumTypicalVolume3(data, i) * vwap[i].den
             ELSE vwap[i].kind = "nan"
\* a series whose first bar has no volume and whose last bar, with a
\* typical price off its close, has
VwapDefinitionWitness ==
    /\ pc = "vwap_done"
    /\ Len(data) >= 2
    /\ vwap[1].kind = "nan"
    /\ vwap[Len(data)].kind = "num"
    /\ data[Len(data)].Low < data[Len(data)].High
    /\ data[Len(data)].Volume > 0

====
